---------------------------- MODULE Spec2Model ----------------------------
(***************************************************************************)
(* A model of the als application scaffolding:                             *)
(*   - src/als/code_utilities.py : the log decorator and the Timer         *)
(*   - src/als/model.py          : DataStore (observer store) and Image    *)
(*                                                                         *)
(* Each component has its own specification (SpecStore, SpecImage,         *)
(* SpecLog, SpecTimer): the components share no state but the clock.       *)
(*                                                                         *)
(* Observers, decorated callables and the body of a `with` block are code  *)
(* outside the two files: a call into them either returns or raises, and   *)
(* the model chooses between the two nondeterministically.  As the store   *)
(* is documented single-threaded and free of re-entrant calls, an observer *)
(* does not call back into the store while it is being notified.           *)
(***************************************************************************)
EXTENDS Integers, Sequences, FiniteSets, TLC

\* ------------------------------------------------------------------ bounds
\* Longest observer list the model builds (add_observer is disabled beyond).
MaxObservers == 3
\* Largest reading of the wall clock, in ticks (see Thousandth).
MaxClock == 6
\* Largest extent of one array axis.
MaxDim == 2

\* ------------------------------------------------------------- value sets
\* The identities of the objects registered as observers.
Observer == {"o1", "o2"}
\* Python's None.
None == "None"
\* What a call does: return a value, or raise an exception.
Return(v) == [kind |-> "return", value |-> v, exc |-> "-"]
Raise(e) == [kind |-> "raise", value |-> None, exc |-> e]
\* An exception: its type and what it carries.
Exc(type, payload) == [type |-> type, payload |-> payload]

VARIABLES
    \* DataStore (model.py:16-19): self._observers, self._scan_in_progress,
    \* self._web_server_is_running
    observers, scan_in_progress, web_server_is_running,
    \* History of the store: the last call of a method (what it was given,
    \* how it ended, its events, the store as it found it); per observer, how
    \* often it was registered when it was last removed (0: not removed since
    \* it was last added); the value last assigned to each flag.
    call, removed, assigned,
    \* Image (model.py:120-122): self._data, self._bayer_pattern,
    \* self._origin; and the last call of a method of the image.
    img, img_call,
    \* The last call of a callable decorated with log (code_utilities.py:25).
    log_call,
    \* What time() reads (code_utilities.py:6).
    clock,
    \* Timer (code_utilities.py:60-67): its attributes; whether control is
    \* in the block of its with statement; how the last with statement ended;
    \* whether the clock was set back since __enter__.
    timer, timer_pc, with_call, set_back

store_vars == <<observers, scan_in_progress, web_server_is_running,
                call, removed, assigned>>
image_vars == <<img, img_call>>
log_vars == <<log_call>>
timer_vars == <<timer, timer_pc, with_call, set_back>>
vars == <<store_vars, image_vars, log_vars, timer_vars, clock>>

\* ------------------------------------------------------------------- util
RECURSIVE Count(_, _)
\* Number of occurrences of x in the sequence s.
Count(x, s) ==
    IF s = <<>> THEN 0
    ELSE (IF Head(s) = x THEN 1 ELSE 0) + Count(x, Tail(s))

Range(s) == {s[i] : i \in 1..Len(s)}


\* ------------------------------------------------------------ time(), "%0.3f"
\* Times are integers.  A reading of time() counts ticks, and a duration in
\* milliseconds counts thousandths of a tick's worth, so that the source's
\* "* 1000" is a multiplication by 1000 here too.  A tick is a third of a
\* microsecond: like the binary floats of the source, no duration is then
\* exactly half way between two texts of three decimals.
\* 0.001 ms, the last digit "%0.3f" keeps, in units of a duration in ms.
Thousandth == 3000

Abs(x) == IF x < 0 THEN -x ELSE x

\* The text of a number: sign, integer part and the three decimals.
Text3(neg, thousandths) ==
    [neg |-> neg, int |-> thousandths \div 1000, frac |-> thousandths % 1000]

\* "%0.3f" % x: x rounded to the nearest thousandth (an exact tie to the even
\* one).  A negative x keeps its sign even when it rounds to zero ("-0.000").
Format3(x) ==
    LET a == Abs(x)
        down == a \div Thousandth
        rest == a % Thousandth
        up == \/ 2 * rest > Thousandth
              \/ 2 * rest = Thousandth /\ down % 2 = 1
    IN  Text3(x < 0, IF up THEN down + 1 ELSE down)

\* --------------------------------------------------------------------- log
\* The two debug records of the decorator.
Called(function_name, args) ==
    [kind |-> "called", fn |-> function_name, args |-> args]
Returned(function_name, result, ms) ==
    [kind |-> "returned", fn |-> function_name, result |-> result, ms |-> ms]

\* What running a callable gives: what it did (out), the events it left
\* behind meanwhile (log records, observer updates) and, for a method, the
\* object as the call leaves it (self).
Ran(out, events, self) == [out |-> out, events |-> events, self |-> self]

\* A variant that logs the return in a finally clause.
wrapped_finally(function_name, args, func, start_time, end_time) ==
    [func EXCEPT !.events =
        <<Called(function_name, args)>> \o func.events
        \o <<Returned(function_name, func.out.value,
                      Format3((end_time - start_time) * 1000))>>]

\* log(func)(*args): the "called" record, func itself, and after a normal
\* return the "returned" record with the result and the elapsed time, then
\* the result.  An exception of func leaves wrapped() at the call of func.
\* start_time and end_time are the readings of time() around func.
wrapped(function_name, args, func, start_time, end_time) ==
    IF func.out.kind = "return"
    THEN [func EXCEPT !.events =
             <<Called(function_name, args)>> \o func.events
             \o <<Returned(function_name, func.out.value,
                           Format3((end_time - start_time) * 1000))>>]
    ELSE [func EXCEPT !.events = <<Called(function_name, args)>> \o func.events]

\* --------------------------------------------------------------- DataStore
\* A decorated method of the store.  The store's calls take no time at the
\* clock's resolution: both readings of time() are the clock's.
log(function_name, args, func) == wrapped(function_name, args, func, clock, clock)

\* observer.update_according_to_app_state() as an event of the call.
Update(observer) == [kind |-> "update", observer |-> observer]

RECURSIVE NotifyLoop(_, _, _, _)
\* for observer in self._observers: observer.update_according_to_app_state()
\* The observer at position fail_at raises (0: none does), which ends the loop.
NotifyLoop(self, i, fail_at, events) ==
    IF i > Len(self.observers) THEN Ran(Return(None), events, self)
    ELSE IF i = fail_at
         THEN Ran(Raise(Exc("ObserverError", "update")),
                  Append(events, Update(self.observers[i])), self)
         ELSE NotifyLoop(self, i + 1, fail_at,
                         Append(events, Update(self.observers[i])))

\* A variant that starts at the second observer.
notify_observers_from_second(self, fail_at) ==
    log("DataStore._notify_observers", <<>>, NotifyLoop(self, 2, fail_at, <<>>))

\* DataStore._notify_observers, decorated.
notify_observers(self, fail_at) ==
    log("DataStore._notify_observers", <<>>, NotifyLoop(self, 1, fail_at, <<>>))

\* A variant that notifies only when the value changes.
scan_in_progress_setter_on_change(self, in_progress, fail_at) ==
    IF self.scan_in_progress = in_progress
    THEN Ran(Return(None), <<>>, self)
    ELSE notify_observers([self EXCEPT !.scan_in_progress = in_progress], fail_at)

\* The body of the scan_in_progress setter.
scan_in_progress_setter(self, in_progress, fail_at) ==
    notify_observers([self EXCEPT !.scan_in_progress = in_progress], fail_at)

\* The body of the web_server_is_running setter.
web_server_is_running_setter(self, running, fail_at) ==
    notify_observers([self EXCEPT !.web_server_is_running = running], fail_at)

\* A variant that reads the other flag.
scan_in_progress_getter_other(self) ==
    Ran(Return(self.web_server_is_running), <<>>, self)

\* The body of the scan_in_progress getter.
scan_in_progress_getter(self) == Ran(Return(self.scan_in_progress), <<>>, self)

\* The body of the web_server_is_running getter.
web_server_is_running_getter(self) ==
    Ran(Return(self.web_server_is_running), <<>>, self)

\* A variant that keeps the observers unique.
add_observer_unique(self, observer) ==
    IF observer \in Range(self.observers) THEN Ran(Return(None), <<>>, self)
    ELSE Ran(Return(None), <<>>,
             [self EXCEPT !.observers = Append(self.observers, observer)])

\* The body of add_observer: self._observers.append(observer)
add_observer(self, observer) ==
    Ran(Return(None), <<>>,
        [self EXCEPT !.observers = Append(self.observers, observer)])

RECURSIVE ListRemove(_, _)
\* A variant that removes every item equal to x.
ListRemoveAll(s, x) == SelectSeq(s, LAMBDA y : y # x)

\* list.remove(x) on a list that holds x: the list without the first item
\* equal to x.
ListRemove(s, x) ==
    IF s = <<>> THEN <<>>
    ELSE IF Head(s) = x THEN Tail(s)
         ELSE <<Head(s)>> \o ListRemove(Tail(s), x)

\* A variant that ignores an observer that is not registered.
remove_observer_silent(self, observer) ==
    Ran(Return(None), <<>>,
        [self EXCEPT !.observers = ListRemove(self.observers, observer)])

\* The body of remove_observer: self._observers.remove(observer), which
\* raises ValueError when observer is not in the list and leaves the list.
remove_observer(self, observer) ==
    IF observer \in Range(self.observers)
    THEN Ran(Return(None), <<>>,
             [self EXCEPT !.observers = ListRemove(self.observers, observer)])
    ELSE Ran(Raise(Exc("ValueError", "list.remove(x): x not in list")), <<>>, self)

\* The store's fields.
Self == [observers |-> observers, scan_in_progress |-> scan_in_progress,
         web_server_is_running |-> web_server_is_running]

\* DataStore(): no observer, both flags False.
NewDataStore ==
    [observers |-> <<>>, scan_in_progress |-> FALSE,
     web_server_is_running |-> FALSE]

\* A finished call of the store leaves the store's fields as ran.self, and
\* is recorded with the store as it found it (pre).
StoreCall(op, arg, ran) ==
    /\ observers' = ran.self.observers
    /\ scan_in_progress' = ran.self.scan_in_progress
    /\ web_server_is_running' = ran.self.web_server_is_running
    /\ call' = [op |-> op, arg |-> arg, out |-> ran.out, events |-> ran.events,
                pre |-> Self]
    /\ UNCHANGED <<image_vars, log_vars, timer_vars, clock>>

StoreInit ==
    /\ observers = NewDataStore.observers
    /\ scan_in_progress = NewDataStore.scan_in_progress
    /\ web_server_is_running = NewDataStore.web_server_is_running
    /\ call = [op |-> "__init__", arg |-> None, out |-> Return(None),
               events |-> <<>>, pre |-> NewDataStore]
    /\ removed = [o \in Observer |-> 0]
    /\ assigned = [scan_in_progress |-> FALSE, web_server_is_running |-> FALSE]

\* STORE.web_server_is_running = running
SetWebServerIsRunning(running, fail_at) ==
    /\ fail_at <= Len(observers)
    /\ StoreCall("set_web_server_is_running", running,
                 log("DataStore.web_server_is_running", <<running>>,
                     web_server_is_running_setter(Self, running, fail_at)))
    /\ assigned' = [assigned EXCEPT !.web_server_is_running = running]
    /\ UNCHANGED removed

\* STORE.scan_in_progress = in_progress
SetScanInProgress(in_progress, fail_at) ==
    /\ fail_at <= Len(observers)
    /\ StoreCall("set_scan_in_progress", in_progress,
                 log("DataStore.scan_in_progress", <<in_progress>>,
                     scan_in_progress_setter(Self, in_progress, fail_at)))
    /\ assigned' = [assigned EXCEPT !.scan_in_progress = in_progress]
    /\ UNCHANGED removed

\* STORE.web_server_is_running
GetWebServerIsRunning ==
    /\ StoreCall("get_web_server_is_running", None,
                 log("DataStore.web_server_is_running", <<>>,
                     web_server_is_running_getter(Self)))
    /\ UNCHANGED <<removed, assigned>>

\* STORE.scan_in_progress
GetScanInProgress ==
    /\ StoreCall("get_scan_in_progress", None,
                 log("DataStore.scan_in_progress", <<>>,
                     scan_in_progress_getter(Self)))
    /\ UNCHANGED <<removed, assigned>>

\* STORE.add_observer(observer)
AddObserver(observer) ==
    /\ Len(observers) < MaxObservers
    /\ StoreCall("add_observer", observer,
                 log("DataStore.add_observer", <<observer>>,
                     add_observer(Self, observer)))
    /\ removed' = [removed EXCEPT ![observer] = 0]
    /\ UNCHANGED assigned

\* STORE.remove_observer(observer)
RemoveObserver(observer) ==
    LET ran == log("DataStore.remove_observer", <<observer>>,
                   remove_observer(Self, observer))
    IN  /\ StoreCall("remove_observer", observer, ran)
        /\ removed' = IF ran.out.kind = "return"
                      THEN [removed EXCEPT ![observer] = Count(observer, observers)]
                      ELSE removed
        /\ UNCHANGED assigned

StoreNext ==
    \/ \E v \in BOOLEAN, f \in 0..MaxObservers : SetWebServerIsRunning(v, f)
    \/ \E v \in BOOLEAN, f \in 0..MaxObservers : SetScanInProgress(v, f)
    \/ GetWebServerIsRunning
    \/ GetScanInProgress
    \/ \E o \in Observer : AddObserver(o)
    \/ \E o \in Observer : RemoveObserver(o)

\* The observers updated during a call, in the order of their updates.
RECURSIVE Invoked(_)
Invoked(events) ==
    IF events = <<>> THEN <<>>
    ELSE IF Head(events).kind = "update"
         THEN <<Head(events).observer>> \o Invoked(Tail(events))
         ELSE Invoked(Tail(events))


\* ------------------------------------------------------------------- Image
\* A numpy array, as far as Image looks at it: its shape and its dtype.
Shape == UNION {[1..n -> 1..MaxDim] : n \in 1..3}
DType == {"uint16", "float32"}
Data == [shape : Shape, dtype : DType]
BayerPattern == {None, "", "RGGB"}
Origin == {"UNDEFINED", "/tmp/m31.fits"}

\* Image(data)
NewImage(data) == [data |-> data, bayer_pattern |-> None, origin |-> "UNDEFINED"]

\* A variant that tests the pattern's truth value.
needs_debayering_truthy(self) == self.bayer_pattern \notin {None, ""}

\* Image.needs_debayering
needs_debayering(self) == self.bayer_pattern # None

\* Image.is_color
is_color(self) == Len(self.data.shape) > 2

\* Image.__repr__: the values its text shows, under the names it gives them.
\* An array of one axis has no shape[1].
repr(self) ==
    IF Len(self.data.shape) < 2
    THEN Raise(Exc("IndexError", "tuple index out of range"))
    ELSE Return([Color |-> is_color(self),
                 NeedsDebayer |-> needs_debayering(self),
                 BayerPattern |-> self.bayer_pattern,
                 Width |-> self.data.shape[1],
                 Height |-> self.data.shape[2],
                 DataType |-> self.data.dtype,
                 Origin |-> self.origin])

\* The record of a finished call on the image: fresh says that nothing was
\* assigned since the image was constructed, had_pattern that a pattern was
\* assigned since, pre_needs what needs_debayering() was before the call.
ImageCall(op, arg, out, fresh, had_pattern) ==
    /\ img_call' = [op |-> op, arg |-> arg, out |-> out, fresh |-> fresh,
                    had_pattern |-> had_pattern,
                    pre_needs |-> needs_debayering(img)]
    /\ UNCHANGED <<store_vars, log_vars, timer_vars, clock>>

\* image = Image(data), at the start
ImageInit(data) ==
    /\ img = NewImage(data)
    /\ img_call = [op |-> "__init__", arg |-> data, out |-> Return(None),
                   fresh |-> TRUE, had_pattern |-> FALSE, pre_needs |-> FALSE]

\* image = Image(data)
ImageNew(data) ==
    /\ img' = NewImage(data)
    /\ ImageCall("__init__", data, Return(None), TRUE, FALSE)

\* image.data = data
SetData(data) ==
    /\ img' = [img EXCEPT !.data = data]
    /\ ImageCall("set_data", data, Return(None), FALSE,
                 img_call.had_pattern)

\* image.origin = origin
SetOrigin(origin) ==
    /\ img' = [img EXCEPT !.origin = origin]
    /\ ImageCall("set_origin", origin, Return(None), FALSE,
                 img_call.had_pattern)

\* image.bayer_pattern = bayer_pattern
SetBayerPattern(bayer_pattern) ==
    /\ img' = [img EXCEPT !.bayer_pattern = bayer_pattern]
    /\ ImageCall("set_bayer_pattern", bayer_pattern, Return(None),
                 FALSE,
                 img_call.had_pattern \/ bayer_pattern # None)

\* image.data, image.origin, image.bayer_pattern
GetField(field) ==
    /\ ImageCall(field, None, Return(img[field]), img_call.fresh,
                 img_call.had_pattern)
    /\ UNCHANGED img

\* image.needs_debayering()
NeedsDebayering ==
    /\ ImageCall("needs_debayering", None,
                 Return(needs_debayering(img)), img_call.fresh,
                 img_call.had_pattern)
    /\ UNCHANGED img

\* image.is_color()
IsColor ==
    /\ ImageCall("is_color", None, Return(is_color(img)),
                 img_call.fresh, img_call.had_pattern)
    /\ UNCHANGED img

\* repr(image)
Repr ==
    /\ ImageCall("__repr__", None, repr(img), img_call.fresh,
                 img_call.had_pattern)
    /\ UNCHANGED img

ImageNext ==
    \/ \E data \in Data : ImageNew(data)
    \/ \E data \in Data : SetData(data)
    \/ \E origin \in Origin : SetOrigin(origin)
    \/ \E bayer_pattern \in BayerPattern : SetBayerPattern(bayer_pattern)
    \/ \E field \in {"data", "origin", "bayer_pattern"} : GetField(field)
    \/ NeedsDebayering
    \/ IsColor
    \/ Repr

\* ------------------------------------------------------------ time() clock
\* time() is the wall clock: it advances, and can be set back.
Tick ==
    /\ clock < MaxClock
    /\ clock' = clock + 1
    /\ UNCHANGED <<store_vars, image_vars, log_vars, timer_vars>>

SetBack ==
    /\ \E t \in 0..MaxClock : t < clock /\ clock' = t
    /\ set_back' = TRUE
    /\ UNCHANGED <<store_vars, image_vars, log_vars, timer, timer_pc, with_call>>

\* ------------------------------------------------------- a decorated callable
\* The callables decorated in SpecLog, their arguments, and what they do.
Function == {"f", "C.m"}
Args == {<<>>, <<1>>}
Result == {None, "m31"}
Exception == {Exc("AlsException", "details"), Exc("KeyError", "k")}
Outcome == {Return(v) : v \in Result} \cup {Raise(e) : e \in Exception}

\* The callable itself running, as an event.
Run(function_name) == [kind |-> "run", fn |-> function_name]

LogInit ==
    log_call = [fn |-> "-", args |-> <<>>, func_out |-> Return(None),
                out |-> Return(None), events |-> <<>>]

\* log(func)(*args) for a func that does func_out; end_time is what time()
\* reads when func is over.
WrappedCall(function_name, args, func_out, end_time) ==
    LET ran == wrapped(function_name, args,
                       Ran(func_out, <<Run(function_name)>>, None),
                       clock, end_time)
    IN  /\ log_call' = [fn |-> function_name, args |-> args,
                        func_out |-> func_out, out |-> ran.out,
                        events |-> ran.events]
        /\ clock' = end_time
        /\ UNCHANGED <<store_vars, image_vars, timer_vars>>

LogNext ==
    \/ \E f \in Function, a \in Args, o \in Outcome, t \in 0..MaxClock :
           WrappedCall(f, a, o, t)
    \/ Tick

\* --------------------------------------------------------------------- Timer
\* An attribute: never assigned, or holding a value.
Unset == <<>>
Holds(v) == <<v>>

\* Timer()
NewTimer ==
    [start |-> Unset, end |-> Unset, elapsed_in_milli |-> Unset,
     elapsed_in_milli_as_str |-> Unset]

\* Timer.__enter__
timer_enter(self, now) == [self EXCEPT !.start = Holds(now)]

\* A variant that times only a block that ended normally.
timer_exit_on_success(self, now, block_out) ==
    IF block_out.kind = "raise" THEN [self |-> self, suppress |-> FALSE]
    ELSE [self |-> [self EXCEPT
                       !.end = Holds(now),
                       !.elapsed_in_milli = Holds((now - self.start[1]) * 1000),
                       !.elapsed_in_milli_as_str =
                           Holds(Format3((now - self.start[1]) * 1000))],
          suppress |-> FALSE]

\* Timer.__exit__(*args): args tell how the block ended and are not looked
\* at; the method returns None, which suppresses no exception.
timer_exit(self, now, block_out) ==
    [self |-> [self EXCEPT
                  !.end = Holds(now),
                  !.elapsed_in_milli = Holds((now - self.start[1]) * 1000),
                  !.elapsed_in_milli_as_str =
                      Holds(Format3((now - self.start[1]) * 1000))],
     suppress |-> FALSE]

NoWith == [block_out |-> Return(None), out |-> Return(None), ended |-> FALSE]

TimerInit ==
    /\ timer = NewTimer
    /\ timer_pc = "out"
    /\ with_call = NoWith
    /\ set_back = FALSE

\* with timer: -- the block is entered
WithEnter ==
    /\ timer_pc = "out"
    /\ timer' = timer_enter(timer, clock)
    /\ timer_pc' = "block"
    /\ set_back' = FALSE
    /\ UNCHANGED <<with_call, clock, store_vars, image_vars, log_vars>>

\* The block of the with statement ends, by block_out; __exit__ runs, and
\* the with statement ends by block_out unless __exit__ suppresses it.
WithExit(block_out) ==
    LET r == timer_exit(timer, clock, block_out)
    IN  /\ timer_pc = "block"
        /\ timer' = r.self
        /\ timer_pc' = "out"
        /\ with_call' = [block_out |-> block_out,
                         out |-> IF block_out.kind = "raise" /\ r.suppress
                                 THEN Return(None) ELSE block_out,
                         ended |-> TRUE]
        /\ UNCHANGED <<set_back, clock, store_vars, image_vars, log_vars>>

TimerNext ==
    \/ WithEnter
    \/ \E o \in {Return(None)} \cup {Raise(e) : e \in Exception} : WithExit(o)
    \/ Tick
    \/ SetBack

\* ------------------------------------------------------------ specifications
\* The image the store, the decorator and the Timer never touch.
AnImage == [shape |-> <<1, 1>>, dtype |-> "uint16"]

InitOthers ==
    /\ StoreInit
    /\ LogInit
    /\ TimerInit
    /\ clock = 0

Init == InitOthers /\ ImageInit(AnImage)

\* An image of any array.
InitImage == InitOthers /\ \E data \in Data : ImageInit(data)

SpecStore == Init /\ [][StoreNext]_vars
SpecImage == InitImage /\ [][ImageNext]_vars
SpecLog == Init /\ [][LogNext]_vars
SpecTimer == Init /\ [][TimerNext]_vars


\* -------------------------------------------------------------- properties
IsSet(c) == c.op \in {"set_scan_in_progress", "set_web_server_is_running"}
IsGet(c) == c.op \in {"get_scan_in_progress", "get_web_server_is_running"}

\* The flag a set or get call is about, as the store holds it now.
Flag(c) ==
    IF c.op \in {"set_scan_in_progress", "get_scan_in_progress"}
    THEN scan_in_progress ELSE web_server_is_running

\* The store is as the call found it.
StoreUntouched ==
    /\ observers = call.pre.observers
    /\ scan_in_progress = call.pre.scan_in_progress
    /\ web_server_is_running = call.pre.web_server_is_running

\* The log records of a kind among the events of a call.
Records(events, kind) == SelectSeq(events, LAMBDA e : e.kind = kind)

\* C1 as stated: in every set call of a flag, each registered observer is
\* updated exactly once, in registration order, whatever the value set.
C1_EachObserverExactlyOnce ==
    IsSet(call) =>
        /\ Invoked(call.events) = call.pre.observers
        /\ \A o \in Range(call.pre.observers) :
               Count(o, Invoked(call.events)) = 1

\* C1 amended: a set call of a flag that returns has updated each entry of
\* the observer sequence exactly once, in registration order (an observer
\* registered k times k times), also when the value set is the value the
\* flag held; a set call that an observer's failure ends has updated the
\* entries up to the failing one, in registration order, and no other.
C1_EachEntryOnceInOrder ==
    IsSet(call) =>
        /\ call.out.kind = "return" =>
               Invoked(call.events) = call.pre.observers
        /\ call.out.kind = "raise" =>
               /\ Len(Invoked(call.events)) \in 1..Len(call.pre.observers)
               /\ Invoked(call.events) =
                      SubSeq(call.pre.observers, 1, Len(Invoked(call.events)))

\* A set call that returned, of the value the flag held, on a store with an
\* observer registered twice and another one.
C1_Witness ==
    /\ IsSet(call)
    /\ call.out.kind = "return"
    /\ call.arg = (IF call.op = "set_scan_in_progress"
                   THEN call.pre.scan_in_progress
                   ELSE call.pre.web_server_is_running)
    /\ Len(call.pre.observers) = 3
    /\ Cardinality(Range(call.pre.observers)) = 2

\* C2: remove_observer of an observer that is not in the observer sequence
\* ends in ValueError at the caller, no "returned" record is logged, and the
\* observer sequence and both flags are left as they were.
C2_RemoveUnregisteredRaises ==
    (call.op = "remove_observer" /\ call.arg \notin Range(call.pre.observers)) =>
        /\ call.out.kind = "raise"
        /\ call.out.exc.type = "ValueError"
        /\ Records(call.events, "returned") = <<>>
        /\ StoreUntouched

\* An observer that is not registered is removed from a store that holds
\* another observer and a flag set.
C2_Witness ==
    /\ call.op = "remove_observer"
    /\ call.arg \notin Range(call.pre.observers)
    /\ call.pre.observers # <<>>
    /\ call.pre.scan_in_progress

\* C3 as stated: after a successful remove_observer(o), with o not added
\* again since, no set call of a flag updates o, however often o was
\* registered.
C3_RemovedNeverUpdated ==
    IsSet(call) =>
        \A o \in Observer :
            removed[o] > 0 => Count(o, Invoked(call.events)) = 0

\* C3 amended: remove_observer(o) removes one entry of o, the first.  After
\* it succeeded on a store that held o k times, with o not added again
\* since, a set call of a flag that returns updates o k - 1 times, and one
\* that fails at most k - 1 times: o is never updated again when it was
\* registered once.
C3_RemovedOnceRegisteredNeverUpdated ==
    /\ \A o \in Observer :
           removed[o] > 0 => Count(o, observers) = removed[o] - 1
    /\ IsSet(call) =>
           \A o \in Observer :
               removed[o] > 0 =>
                   /\ Count(o, Invoked(call.events)) <= removed[o] - 1
                   /\ call.out.kind = "return" =>
                          Count(o, Invoked(call.events)) = removed[o] - 1

\* A set call that returned, on a store from which an observer registered
\* once was removed, and one registered twice too.
C3_Witness ==
    /\ IsSet(call)
    /\ call.out.kind = "return"
    /\ \E o \in Observer : removed[o] = 1
    /\ \E o \in Observer : removed[o] = 2

\* C4 as stated: when a set call of a flag has ended, by returning or by the
\* failure of an observer, the flag holds the value set and every observer
\* registered when it was called has been updated, in registration order.
C4_FullPassHoweverTheCallEnds ==
    IsSet(call) =>
        /\ Flag(call) = call.arg
        /\ Invoked(call.events) = call.pre.observers

\* C4 amended: a set call of a flag stores the value, then updates the
\* observers in registration order within the call.  When it returns, every
\* entry registered when it was called has been updated.  When an observer
\* fails, the call ends there with that failure: the flag holds the value
\* set, the entries after the failing one have not been updated, and no
\* "returned" record is logged.
C4_FullPassUnlessAnObserverFails ==
    IsSet(call) =>
        /\ Flag(call) = call.arg
        /\ observers = call.pre.observers
        /\ Head(call.events).kind = "called"
        /\ call.out.kind = "return" =>
               /\ Invoked(call.events) = call.pre.observers
               /\ Len(Records(call.events, "returned")) = 2
        /\ call.out.kind = "raise" =>
               /\ call.out.exc.type = "ObserverError"
               /\ \E k \in 1..Len(call.pre.observers) :
                      Invoked(call.events) = SubSeq(call.pre.observers, 1, k)
               /\ Records(call.events, "returned") = <<>>

\* A set call ended by the failure of the first of three observers.
C4_Witness ==
    /\ IsSet(call)
    /\ call.out.kind = "raise"
    /\ Len(call.pre.observers) = 3
    /\ Len(Invoked(call.events)) = 1
    /\ Flag(call) # (IF call.op = "set_scan_in_progress"
                     THEN call.pre.scan_in_progress
                     ELSE call.pre.web_server_is_running)

\* C5: reading a flag returns the value most recently assigned to it (False
\* when none was), updates no observer, and leaves both flags and the
\* observer sequence as they were.
C5_GetIsPureRead ==
    IsGet(call) =>
        /\ call.out.kind = "return"
        /\ call.out.value = (IF call.op = "get_scan_in_progress"
                             THEN assigned.scan_in_progress
                             ELSE assigned.web_server_is_running)
        /\ Invoked(call.events) = <<>>
        /\ StoreUntouched

\* A flag is read that holds True while the other holds False, on a store
\* with an observer.
C5_Witness ==
    /\ IsGet(call)
    /\ call.out.value = TRUE
    /\ scan_in_progress # web_server_is_running
    /\ observers # <<>>

C7_NeedsDebayeringFollowsPattern ==
    /\ img_call.op = "needs_debayering" =>
           img_call.out = Return(img.bayer_pattern # None)
    /\ img_call.op = "__init__" => ~needs_debayering(img)
    /\ img_call.op = "set_bayer_pattern" =>
           needs_debayering(img) = (img_call.arg # None)
    /\ img_call.op \in {"set_data", "set_origin"} =>
           needs_debayering(img) = img_call.pre_needs

\* needs_debayering() answers false on an image whose pattern was assigned
\* and then set to None again.
C7_Witness ==
    /\ img_call.op = "needs_debayering"
    /\ img_call.out = Return(FALSE)
    /\ img_call.had_pattern

\* C8 as stated: the text of a new Image of an array of shape (H, W) tells
\* no color, width W and height H; an Image of an array of shape (H, W, C)
\* is in color.
C8_ShapeReported ==
    LET shape == img.data.shape IN
    /\ (img_call.op = "__repr__" /\ img_call.fresh /\ Len(shape) = 2) =>
           /\ img_call.out.kind = "return"
           /\ ~img_call.out.value.Color
           /\ img_call.out.value.Width = shape[2]
           /\ img_call.out.value.Height = shape[1]
    /\ (img_call.op = "is_color" /\ img_call.fresh /\ Len(shape) = 2) =>
           img_call.out = Return(FALSE)
    /\ (img_call.op = "is_color" /\ Len(shape) = 3) =>
           img_call.out = Return(TRUE)

\* C9: a decorated call logs "called" once, before the callable runs; when
\* the callable returns, "returned" is logged once, after it, and the call
\* returns the callable's value; when the callable raises, the call raises
\* the same exception and no "returned" is logged.
C9_LogReturnsOrReraises ==
    log_call.fn \in Function =>
        /\ log_call.events[1] = Called(log_call.fn, log_call.args)
        /\ log_call.events[2] = Run(log_call.fn)
        /\ Len(Records(log_call.events, "called")) = 1
        /\ log_call.out = log_call.func_out
        /\ log_call.func_out.kind = "return" =>
               /\ Len(log_call.events) = 3
               /\ log_call.events[3].kind = "returned"
               /\ log_call.events[3].fn = log_call.fn
               /\ log_call.events[3].result = log_call.func_out.value
        /\ log_call.func_out.kind = "raise" =>
               Records(log_call.events, "returned") = <<>>

\* A decorated call whose callable raised.
C9_Witness ==
    /\ log_call.fn \in Function
    /\ log_call.func_out.kind = "raise"
    /\ log_call.out.exc.type = "AlsException"

\* The with statement has ended and the Timer's attributes are set from the
\* readings of its start and end.
TimerReleased ==
    /\ timer_pc = "out"
    /\ timer.start # Unset
    /\ timer.end # Unset
    /\ timer.elapsed_in_milli = Holds((timer.end[1] - timer.start[1]) * 1000)
    /\ timer.elapsed_in_milli_as_str = Holds(Format3(timer.elapsed_in_milli[1]))
    /\ with_call.out = with_call.block_out

\* C10 as stated: when a with block of a Timer has ended, by completing or by
\* failing, end, elapsed_in_milli and elapsed_in_milli_as_str are set from the
\* readings of start and end, end >= start, and a failure of the block
\* reaches the enclosing code.
C10_ReleasedWithEndNotBeforeStart ==
    with_call.ended /\ timer_pc = "out" =>
        /\ TimerReleased
        /\ timer.end[1] >= timer.start[1]

\* C10 amended: when a with block of a Timer has ended, by completing or by
\* failing, end, elapsed_in_milli = (end - start) * 1000 and
\* elapsed_in_milli_as_str are set from the readings of start and end, and a
\* failure of the block reaches the enclosing code.  end >= start when the
\* wall clock was not set back during the block: time() is not monotonic.
C10_ReleasedWithClockReadings ==
    with_call.ended /\ timer_pc = "out" =>
        /\ TimerReleased
        /\ ~set_back => timer.end[1] >= timer.start[1]

\* A block that failed after the clock advanced past its start.
C10_Witness ==
    /\ with_call.ended
    /\ timer_pc = "out"
    /\ with_call.block_out.kind = "raise"
    /\ ~set_back
    /\ timer.elapsed_in_milli_as_str = Holds(Text3(FALSE, 2))
=============================================================================
